---------------------------- MODULE Spec2Model ----------------------------
(***************************************************************************)
(* OAuth gateway of common-mcp-server (src/src/common_mcp_server/oauth.py). *)
(*                                                                         *)
(* create_oauth_router(config) closes six handlers over one configuration. *)
(* The model runs NumReq requests concurrently.  A handler that awaits the *)
(* upstream identity provider is split at the await: the first step runs   *)
(* the handler up to the upstream call, the second step resumes it with    *)
(* the outcome of that call (a reply, or an httpx.RequestError).           *)
(*                                                                         *)
(* Text is a sequence of tokens; an f-string is a concatenation.           *)
(*                                                                         *)
(* Every record constructor lists its fields in the order in which the     *)
(* field names first appear in this module.  That is the order TLC keeps   *)
(* a record in, so no worker ever reorders a record another one reads.     *)
(***************************************************************************)
EXTENDS Integers, Sequences, FiniteSets, TLC

VARIABLES
    config,   \* the OAuthRouterConfig captured by the router's closures
    pc,       \* pc[i]: "idle", "awaiting" (suspended on the upstream call), "done"
    req,      \* req[i]: the request slot i is handling
    calls,    \* calls[i]: the upstream calls issued while handling req[i]
    reply,    \* reply[i]: the outcome of slot i's upstream call
    resp      \* resp[i]: the HTTP response returned for req[i]

vars == <<config, pc, req, calls, reply, resp>>

\* Number of requests in flight at once.
NumReq == 2

Slots == 1..NumReq

-----------------------------------------------------------------------------
(* Text helpers *)

\* str.startswith
StartsWith(s, p) ==
    /\ Len(s) >= Len(p)
    /\ SubSeq(s, 1, Len(p)) = p

\* The characters of "Bearer "
BearerPrefix == <<"B", "e", "a", "r", "e", "r", " ">>

-----------------------------------------------------------------------------
(* OAuthRouterConfig *)

ConfigSet ==
    { [ resource_url       |-> <<"https://eng.example">>,
        keycloak_url       |-> <<"https://auth.example">>,
        keycloak_realm     |-> <<"originate">>,
        keycloak_client_id |-> "originate-api",
        service_name       |-> "Originate Service" ],
      [ resource_url       |-> <<>>,
        keycloak_url       |-> <<>>,
        keycloak_realm     |-> <<>>,
        keycloak_client_id |-> "",
        service_name       |-> "Originate Service" ] }

keycloak_base(c) == c.keycloak_url \o <<"/realms/">> \o c.keycloak_realm

keycloak_auth_url(c) == keycloak_base(c) \o <<"/protocol/openid-connect/auth">>

keycloak_token_url(c) == keycloak_base(c) \o <<"/protocol/openid-connect/token">>

keycloak_userinfo_url(c) == keycloak_base(c) \o <<"/protocol/openid-connect/userinfo">>

keycloak_jwks_url(c) == keycloak_base(c) \o <<"/protocol/openid-connect/certs">>


-----------------------------------------------------------------------------
(* Requests *)

\* A query or form parameter
Param(k, v) == [k |-> k, v |-> v]

\* Raw query strings of GET /oauth/authorize, split at "&" and "=": each value
\* is the token sequence the caller sent, percent-escapes included.
QuerySet ==
    { <<>>,
      << Param("response_type", <<"code">>),
         Param("client_id", <<"originate-api">>),
         Param("code_challenge", <<"E9Melhoa">>) >>,
      << Param("state", <<"s1">>), Param("client_id", <<"originate-api">>) >>,
      << Param("resource", <<"r1">>),
         Param("scope", <<"openid">>),
         Param("resource", <<"r2">>) >>,
      << Param("redirect_uri", <<"https://a/cb", "%3F", "x", "%3D", "1", "%26", "y">>) >>,
      << Param("scope", <<"openid", "+", "email">>) >> }

\* Form fields of POST /oauth/token as the caller submitted them (decoded).
FormSet ==
    { <<>>,
      << Param("grant_type", "authorization_code"),
         Param("code", "c1"),
         Param("code_verifier", "v1") >>,
      << Param("grant_type", "refresh_token"), Param("refresh_token", "rt1") >>,
      << Param("resource", "r1"),
         Param("grant_type", "authorization_code"),
         Param("resource", "r2") >> }

\* request.headers.get("Authorization"): None when the header is absent
Header(present, value) == [present |-> present, value |-> value]

NoHeader == Header(FALSE, <<>>)

\* Authorization header values.  The HTTP parser hands a field value over
\* without leading or trailing whitespace, so no value ends in a space.
AuthHeaderSet ==
    { NoHeader,
      Header(TRUE, <<>>),
      Header(TRUE, BearerPrefix \o <<"t", "1">>),
      Header(TRUE, BearerPrefix \o <<"t", "2">>),
      Header(TRUE, <<"b", "e", "a", "r", "e", "r", " ", "t", "1">>),
      Header(TRUE, <<"B", "a", "s", "i", "c", " ", "t", "1">>),
      Header(TRUE, <<"B", "e", "a", "r", "e", "r">>),
      Header(TRUE, <<"B", "e", "a", "r", "e", "r", "t", "1">>) }

\* JSON values
JStr(s) == [json_type |-> "str", text |-> s, items |-> <<>>]

JList(xs) == [json_type |-> "list", text |-> "", items |-> xs]

JNull == [json_type |-> "null", text |-> "", items |-> <<>>]

\* the literal NaN, which json.loads accepts
JNaN == [json_type |-> "nan", text |-> "", items |-> <<>>]

NoFields == [k \in {} |-> JNull]

\* What `await request.json()` makes of the body: kind "invalid" is a body
\* json.loads rejects; the other kinds are the type of the parsed value.
Body(kind, fields) == [kind |-> kind, fields |-> fields]

BodySet ==
    { Body("invalid", NoFields),
      Body("list", NoFields),
      Body("str", NoFields),
      Body("null", NoFields),
      Body("dict", NoFields),
      Body("dict", ("client_name" :> JStr("X")) @@
                   ("redirect_uris" :> JList(<<"https://a/cb">>))),
      Body("dict", ("client_name" :> JStr("X")) @@
                   ("redirect_uris" :> JList(<<"https://a/cb">>)) @@
                   ("token_endpoint_auth_method" :> JStr("client_secret_basic"))),
      Body("dict", ("client_name" :> JStr("Y")) @@
                   ("grant_types" :> JList(<<"implicit">>))),
      Body("dict", ("redirect_uris" :> JList(<<"https://b/cb", "https://c/cb">>))),
      Body("dict", ("client_name" :> JNull) @@ ("redirect_uris" :> JList(<<>>))),
      Body("dict", ("client_name" :> JNaN)),
      Body("dict", ("client_name" :> JStr("X")) @@ ("scope" :> JNaN)) }

Request(endpoint, query, form, auth, json) ==
    [endpoint |-> endpoint, query |-> query, form |-> form, auth |-> auth,
     json |-> json]

NoBody == Body("invalid", NoFields)

NoRequest == Request("none", <<>>, <<>>, NoHeader, NoBody)

-----------------------------------------------------------------------------
(* Upstream identity provider *)

\* An upstream call made through httpx.AsyncClient
Call(method, url, data, content_type, authorization, timeout) ==
    [method |-> method, url |-> url, data |-> data, content_type |-> content_type,
     authorization |-> authorization, timeout |-> timeout]

Reply(status, content) ==
    [kind |-> "reply", status |-> status, content |-> content, exc |-> ""]

\* An httpx.RequestError raised by the call
Failure(exc) == [kind |-> "error", status |-> 0, content |-> "", exc |-> exc]

NoReply == [kind |-> "none", status |-> 0, content |-> "", exc |-> ""]

OutcomeSet ==
    { Reply(200, "bytes1"), Reply(200, "bytes2"), Reply(400, "bytes2"),
      Reply(503, "bytes1"),
      Failure("ReadTimeout"), Failure("ConnectError") }

-----------------------------------------------------------------------------
(* Responses *)

HttpResponse(status, headers, body) ==
    [status |-> status, headers |-> headers, body |-> body]

JsonHeaders == [content_type |-> "application/json"]

\* a response without content
EmptyBody == [empty |-> TRUE]

NoResponse == HttpResponse(0, [none |-> TRUE], [none |-> TRUE])

-----------------------------------------------------------------------------
(* Discovery documents *)

authorization_server_metadata(c) ==
    HttpResponse(200, JsonHeaders,
        [ issuer                 |-> keycloak_base(c),
          authorization_endpoint |-> c.resource_url \o <<"/oauth/authorize">>,
          token_endpoint         |-> c.resource_url \o <<"/oauth/token">>,
          registration_endpoint  |-> c.resource_url \o <<"/oauth/register">>,
          jwks_uri               |-> keycloak_jwks_url(c),
          response_types_supported |-> <<"code">>,
          grant_types_supported    |-> <<"authorization_code", "refresh_token">>,
          code_challenge_methods_supported      |-> <<"S256">>,
          token_endpoint_auth_methods_supported |-> <<"none">>,
          scopes_supported |-> <<"openid", "profile", "email", "offline_access">>,
          subject_types_supported |-> <<"public">>,
          id_token_signing_alg_values_supported |-> <<"RS256">>,
          claims_supported |-> <<"sub", "iss", "aud", "exp", "iat", "email",
                                 "email_verified", "name", "preferred_username">>,
          resource_parameter_supported |-> TRUE,
          service_documentation |-> c.resource_url \o <<"/docs">> ])

protected_resource_metadata(c) ==
    HttpResponse(200, JsonHeaders,
        [ scopes_supported      |-> <<"openid", "profile", "email">>,
          resource              |-> c.resource_url \o <<"/mcp">>,
          authorization_servers |-> <<c.resource_url>>,
          bearer_methods_supported |-> <<"header">>,
          resource_signing_alg_values_supported |-> <<"RS256">>,
          resource_documentation |-> c.resource_url \o <<"/docs">>,
          mcp_endpoints          |-> <<c.resource_url \o <<"/mcp">>>> ])

oauth_options ==
    HttpResponse(200,
        [ access_control_allow_origin  |-> "*",
          access_control_allow_methods |-> "GET, POST, OPTIONS",
          access_control_allow_headers |-> "Content-Type, Authorization" ],
        EmptyBody)

-----------------------------------------------------------------------------
(* dict() of a multi-valued mapping *)

\* The value the mapping holds for key k: the last one given
LastValue(params, k) ==
    LET last == CHOOSE i \in 1..Len(params) :
                    /\ params[i].k = k
                    /\ \A j \in (i+1)..Len(params) : params[j].k # k
    IN  params[last].v

RECURSIVE DictFrom(_, _)
DictFrom(params, i) ==
    IF i > Len(params) THEN <<>>
    ELSE (IF \A j \in 1..(i-1) : params[j].k # params[i].k
          THEN <<Param(params[i].k, LastValue(params, params[i].k))>>
          ELSE <<>>) \o DictFrom(params, i + 1)

\* dict(request.query_params), dict(form_data): one entry per key, in the
\* order the keys first appear, holding the last value given for the key
ToDict(params) == DictFrom(params, 1)

-----------------------------------------------------------------------------
(* GET /oauth/authorize *)

\* Percent-decoding of one token, as the query-string parser does it
Unquote(tok) ==
    CASE tok = "%26" -> "&"
      [] tok = "%3D" -> "="
      [] tok = "%3F" -> "?"
      [] tok = "+"   -> " "
      [] tok = "%20" -> " "
      [] OTHER       -> tok

\* request.query_params: the parsed (decoded) parameters, in order
QueryParams(query) ==
    [i \in 1..Len(query) |->
        Param(query[i].k, [n \in 1..Len(query[i].v) |-> Unquote(query[i].v[n])])]

\* "&".join(f"{k}={v}" for k, v in query_params.items())
RECURSIVE ParamsStr(_)
ParamsStr(params) ==
    IF Len(params) = 0 THEN <<>>
    ELSE <<params[1].k, "=">> \o params[1].v \o
         (IF Len(params) > 1 THEN <<"&">> \o ParamsStr(Tail(params)) ELSE <<>>)

\* The quoting RedirectResponse applies to its url: ":/%#?=@[]!$&'()*+,;" are
\* left alone, a space is escaped
QuoteUrl(url) ==
    [n \in 1..Len(url) |-> IF url[n] = " " THEN "%20" ELSE url[n]]

authorize(c, query) ==
    LET query_params == ToDict(QueryParams(query))
        keycloak_url == keycloak_auth_url(c) \o <<"?">> \o ParamsStr(query_params)
    IN  HttpResponse(302, [location |-> QuoteUrl(keycloak_url)], EmptyBody)

-----------------------------------------------------------------------------
(* POST /oauth/token *)

\* client.post(config.keycloak_token_url, data=form_dict, ...)
token_call(c, form) ==
    Call("POST", keycloak_token_url(c), ToDict(form),
         "application/x-www-form-urlencoded", NoHeader, 30)

\* token_relay with the upstream status dropped: the body under a fixed 200
token_relay_fixed_status(out) ==
    HttpResponse(200, JsonHeaders, [raw |-> out.content])

\* Response(content=response.content, status_code=response.status_code, ...)
token_relay(out) ==
    HttpResponse(out.status, JsonHeaders, [raw |-> out.content])

\* token_error answering with the default status instead of 502
token_error_default_status(out) ==
    HttpResponse(200, JsonHeaders,
        [error |-> "server_error", error_description |-> out.exc])

\* except httpx.RequestError as e
token_error(out) ==
    HttpResponse(502, JsonHeaders,
        [error |-> "server_error", error_description |-> out.exc])

\* token_response through one upstream connection shared by all requests: a
\* call made while another request holds the connection fails
token_response_shared_client(out) ==
    IF Cardinality({j \in Slots : pc[j] = "awaiting"}) > 1
    THEN token_error(Failure("PoolTimeout"))
    ELSE IF out.kind = "reply" THEN token_relay(out) ELSE token_error(out)

token_response(out) ==
    IF out.kind = "reply" THEN token_relay(out) ELSE token_error(out)

-----------------------------------------------------------------------------
(* POST /oauth/register *)

\* body.get(key, default)
Get(fields, key, default) ==
    IF key \in DOMAIN fields THEN fields[key] ELSE default

\* json.dumps(..., allow_nan=False) of a response field
Serializable(v) == v.json_type # "nan"

\* register_data taking the auth method the caller asked for
register_data_requested_method(c, body) ==
    [ client_id      |-> c.keycloak_client_id,
      client_secret  |-> "",
      client_name    |-> Get(body.fields, "client_name", JStr("MCP Client")),
      redirect_uris  |-> Get(body.fields, "redirect_uris", JList(<<>>)),
      grant_types    |-> <<"authorization_code", "refresh_token">>,
      response_types |-> <<"code">>,
      token_endpoint_auth_method |->
          Get(body.fields, "token_endpoint_auth_method", JStr("none")).text,
      application_type |-> "web" ]

register_data(c, body) ==
    [ client_id      |-> c.keycloak_client_id,
      client_secret  |-> "",
      client_name    |-> Get(body.fields, "client_name", JStr("MCP Client")),
      redirect_uris  |-> Get(body.fields, "redirect_uris", JList(<<>>)),
      grant_types    |-> <<"authorization_code", "refresh_token">>,
      response_types |-> <<"code">>,
      token_endpoint_auth_method |-> "none",
      application_type |-> "web" ]

\* register_raises catching the parse error alone
register_raises_parse_only(c, body) == body.kind = "invalid"

\* The exceptions of the try block: request.json() rejects the body, the parsed
\* value has no .get, or JSONResponse cannot render the response data
register_raises(c, body) ==
    \/ body.kind = "invalid"
    \/ body.kind # "dict"
    \/ ~Serializable(register_data(c, body).client_name)
    \/ ~Serializable(register_data(c, body).redirect_uris)

\* str(e) of the exception caught
register_exception(c, body) ==
    IF body.kind = "invalid" THEN "JSONDecodeError"
    ELSE IF body.kind # "dict" THEN "AttributeError"
    ELSE "ValueError"

register(c, body) ==
    IF register_raises(c, body)
    THEN HttpResponse(400, [access_control_allow_origin |-> "*"],
             [ error |-> "invalid_client_metadata",
               error_description |-> register_exception(c, body) ])
    ELSE HttpResponse(201,
             [access_control_allow_origin |-> "*", cache_control |-> "no-store"],
             register_data(c, body))

-----------------------------------------------------------------------------
(* GET /oauth/userinfo *)

\* userinfo_rejects without the scheme test
userinfo_rejects_missing_only(auth) ==
    \/ ~auth.present
    \/ Len(auth.value) = 0

\* not auth_header or not auth_header.startswith("Bearer ")
userinfo_rejects(auth) ==
    \/ ~auth.present
    \/ Len(auth.value) = 0
    \/ ~StartsWith(auth.value, BearerPrefix)

userinfo_unauthorized ==
    HttpResponse(401, JsonHeaders, [error |-> "invalid_token"])

\* client.get(config.keycloak_userinfo_url, headers={"Authorization": ...}, ...)
userinfo_call(c, auth) ==
    Call("GET", keycloak_userinfo_url(c), <<>>, "", auth, 30)

userinfo_relay(out) ==
    HttpResponse(out.status, JsonHeaders, [raw |-> out.content])

\* except httpx.RequestError as e
userinfo_error(out) ==
    HttpResponse(502, JsonHeaders, [error |-> "server_error"])

userinfo_response(out) ==
    IF out.kind = "reply" THEN userinfo_relay(out) ELSE userinfo_error(out)

-----------------------------------------------------------------------------
(* The router: one step per handler, two for a handler that awaits upstream *)

Init ==
    /\ config \in ConfigSet
    /\ pc    = [i \in Slots |-> "idle"]
    /\ req   = [i \in Slots |-> NoRequest]
    /\ calls = [i \in Slots |-> <<>>]
    /\ reply = [i \in Slots |-> NoReply]
    /\ resp  = [i \in Slots |-> NoResponse]

\* A handler that answers without an upstream call
Answer(i, request, response) ==
    /\ pc[i] = "idle"
    /\ req'  = [req EXCEPT ![i] = request]
    /\ resp' = [resp EXCEPT ![i] = response]
    /\ pc'   = [pc EXCEPT ![i] = "done"]
    /\ UNCHANGED <<config, calls, reply>>

\* A handler that issues an upstream call and is suspended on it
Await(i, request, call) ==
    /\ pc[i] = "idle"
    /\ req'   = [req EXCEPT ![i] = request]
    /\ calls' = [calls EXCEPT ![i] = Append(@, call)]
    /\ pc'    = [pc EXCEPT ![i] = "awaiting"]
    /\ UNCHANGED <<config, reply, resp>>

\* The upstream call of a suspended handler ends and the handler answers
Resume(i, endpoint, out, response) ==
    /\ pc[i] = "awaiting"
    /\ req[i].endpoint = endpoint
    /\ reply' = [reply EXCEPT ![i] = out]
    /\ resp'  = [resp EXCEPT ![i] = response]
    /\ pc'    = [pc EXCEPT ![i] = "done"]
    /\ UNCHANGED <<config, req, calls>>

AuthorizationServerMetadata(i) ==
    Answer(i, Request("authorization_server_metadata", <<>>, <<>>, NoHeader, NoBody),
           authorization_server_metadata(config))

ProtectedResourceMetadata(i) ==
    Answer(i, Request("protected_resource_metadata", <<>>, <<>>, NoHeader, NoBody),
           protected_resource_metadata(config))

OauthOptions(i) ==
    Answer(i, Request("oauth_options", <<>>, <<>>, NoHeader, NoBody), oauth_options)

Authorize(i) ==
    \E query \in QuerySet :
        Answer(i, Request("authorize", query, <<>>, NoHeader, NoBody),
               authorize(config, query))

Register(i) ==
    \E body \in BodySet :
        Answer(i, Request("register", <<>>, <<>>, NoHeader, body),
               register(config, body))

TokenCall(i) ==
    \E form \in FormSet :
        Await(i, Request("token", <<>>, form, NoHeader, NoBody),
              token_call(config, form))

TokenReturn(i) ==
    \E out \in OutcomeSet :
        Resume(i, "token", out, token_response(out))

UserinfoReject(i) ==
    \E auth \in AuthHeaderSet :
        /\ userinfo_rejects(auth)
        /\ Answer(i, Request("userinfo", <<>>, <<>>, auth, NoBody),
                  userinfo_unauthorized)

UserinfoCall(i) ==
    \E auth \in AuthHeaderSet :
        /\ ~userinfo_rejects(auth)
        /\ Await(i, Request("userinfo", <<>>, <<>>, auth, NoBody),
                 userinfo_call(config, auth))

UserinfoReturn(i) ==
    \E out \in OutcomeSet :
        Resume(i, "userinfo", out, userinfo_response(out))

\* A request arrives and its handler runs to its first suspension or its end
Handle(i) ==
    \/ AuthorizationServerMetadata(i)
    \/ ProtectedResourceMetadata(i)
    \/ OauthOptions(i)
    \/ Authorize(i)
    \/ Register(i)
    \/ TokenCall(i)
    \/ UserinfoReject(i)
    \/ UserinfoCall(i)

\* A suspended handler is resumed
Return(i) ==
    \/ TokenReturn(i)
    \/ UserinfoReturn(i)

Next == \E i \in Slots : Handle(i) \/ Return(i)

Spec == Init /\ [][Next]_vars

-----------------------------------------------------------------------------
(* Properties *)

Done(i, endpoint) == pc[i] = "done" /\ req[i].endpoint = endpoint

\* The upstream call of slot i was answered and the handler has returned
Relayed(i, endpoint) == Done(i, endpoint) /\ reply[i].kind = "reply"

\* The upstream call of slot i failed and the handler has returned
Failed(i, endpoint) == Done(i, endpoint) /\ reply[i].kind = "error"

\* C1: a POST /oauth/token whose upstream call is answered with (s, b) is
\* answered with exactly status s and exactly body b, whatever s and b are.
TokenRelaysReplyVerbatim ==
    \A i \in Slots :
        Relayed(i, "token") =>
            /\ resp[i].status = reply[i].status
            /\ resp[i].body = [raw |-> reply[i].content]

TokenRelaysReplyVerbatimWitness ==
    \E i \in Slots :
        /\ Relayed(i, "token")
        /\ reply[i].status = 503
        /\ resp[i].status = 503
        /\ resp[i].body = [raw |-> "bytes1"]

\* C2: a POST /oauth/token whose upstream call fails at the network level is
\* answered 502 with error = "server_error" and an error_description; the
\* token endpoint answers 200 only if the upstream replied 200.
TokenFailureIs502 ==
    \A i \in Slots :
        /\ Failed(i, "token") =>
              /\ resp[i].status = 502
              /\ DOMAIN resp[i].body = {"error", "error_description"}
              /\ resp[i].body.error = "server_error"
        /\ (Done(i, "token") /\ resp[i].status = 200) =>
              (reply[i].kind = "reply" /\ reply[i].status = 200)

TokenFailureIs502Witness ==
    \E i \in Slots :
        /\ Failed(i, "token")
        /\ reply[i].exc = "ReadTimeout"
        /\ resp[i].status = 502

\* The index of the first token of s equal to tok, 0 if there is none
IndexOf(s, tok) ==
    IF \E n \in 1..Len(s) : s[n] = tok
    THEN CHOOSE n \in 1..Len(s) : s[n] = tok /\ \A m \in 1..(n-1) : s[m] # tok
    ELSE 0

\* The pieces of s between the tokens equal to sep
RECURSIVE SplitAt(_, _)
SplitAt(s, sep) ==
    IF IndexOf(s, sep) = 0 THEN <<s>>
    ELSE <<SubSeq(s, 1, IndexOf(s, sep) - 1)>> \o
         SplitAt(SubSeq(s, IndexOf(s, sep) + 1, Len(s)), sep)

\* The parameters a receiver reads from the query part of a URL: the text
\* after the first "?", split at "&", each piece split at its first "=" and
\* percent-decoded
ReceivedParams(url) ==
    LET query  == SubSeq(url, IndexOf(url, "?") + 1, Len(url))
        pieces == IF Len(query) = 0 THEN <<>> ELSE SplitAt(query, "&")
        key(p) == IF IndexOf(p, "=") = 0 THEN p
                  ELSE SubSeq(p, 1, IndexOf(p, "=") - 1)
        val(p) == IF IndexOf(p, "=") = 0 THEN <<>>
                  ELSE SubSeq(p, IndexOf(p, "=") + 1, Len(p))
    IN  [n \in 1..Len(pieces) |->
            Param(key(pieces[n]),
                  [m \in 1..Len(val(pieces[n])) |-> Unquote(val(pieces[n])[m])])]

\* The parameters of the request, as a receiver of the request's own query
\* string reads them
SentParams(query) ==
    [n \in 1..Len(query) |-> Param(<<query[n].k>>, QueryParams(query)[n].v)]

\* C3 (as claimed): GET /oauth/authorize answers 302 with Location = the
\* upstream authorization endpoint followed by the request's query parameters
\* unmodified: the upstream reads from it every parameter of the request, each
\* occurrence of a repeated key included, in order, with the same value, and
\* no other parameter.
AuthorizeForwardsQueryUnmodified ==
    \A i \in Slots :
        Done(i, "authorize") =>
            /\ resp[i].status = 302
            /\ StartsWith(resp[i].headers.location,
                          keycloak_auth_url(config) \o <<"?">>)
            /\ ReceivedParams(resp[i].headers.location) = SentParams(req[i].query)

\* "Bearer <token>": the scheme, one space, a token
IsBearerForm(auth) ==
    /\ auth.present
    /\ StartsWith(auth.value, BearerPrefix)
    /\ Len(auth.value) > Len(BearerPrefix)

SharedClient(c, client_name, redirect_uris) ==
    [ client_id      |-> c.keycloak_client_id,
      client_secret  |-> "",
      client_name    |-> client_name,
      redirect_uris  |-> redirect_uris,
      grant_types    |-> <<"authorization_code", "refresh_token">>,
      response_types |-> <<"code">>,
      token_endpoint_auth_method |-> "none",
      application_type |-> "web" ]

\* The value submitted under key, or the handler's default when none was
Submitted(body, key, default) ==
    IF key \in DOMAIN body.fields THEN body.fields[key] ELSE default

\* A body the registration handler can echo: a JSON object whose client_name
\* and redirect_uris, if given, are not the non-finite number NaN
Echoable(body) ==
    /\ body.kind = "dict"
    /\ Submitted(body, "client_name", JNull).json_type # "nan"
    /\ Submitted(body, "redirect_uris", JNull).json_type # "nan"

MetadataPointsAtThisService ==
    \A i \in Slots :
        Done(i, "authorization_server_metadata") =>
            /\ \A f \in {"issuer", "authorization_endpoint", "token_endpoint",
                         "registration_endpoint"} :
                  /\ resp[i].body[f] # <<>>
                  /\ StartsWith(resp[i].body[f], config.resource_url)
            /\ resp[i].body.jwks_uri # <<>>
            /\ StartsWith(resp[i].body.jwks_uri, config.keycloak_url)

\* C8 (as claimed): the form body POST /oauth/token sends upstream is the
\* caller's form body verbatim: every field, each occurrence of a repeated
\* name included, with its value; none dropped, merged or added.
TokenForwardsFormVerbatim ==
    \A i \in Slots :
        (pc[i] # "idle" /\ req[i].endpoint = "token") =>
            /\ Len(calls[i]) = 1
            /\ calls[i][1].data = req[i].form

\* C9 (as claimed): a proxied request whose upstream call has ended is
\* answered either with the relayed reply or, for every upstream failure,
\* with a synthesized body carrying error and error_description.
UpstreamFailureInOAuthVocabulary ==
    \A i \in Slots :
        (pc[i] = "done" /\ calls[i] # <<>>) =>
            \/ /\ reply[i].kind = "reply"
               /\ resp[i].status = reply[i].status
               /\ resp[i].body = [raw |-> reply[i].content]
            \/ /\ reply[i].kind = "error"
               /\ {"error", "error_description"} \subseteq DOMAIN resp[i].body

\* Two slots that handled the same request with the same upstream outcome
\* returned the same response
Deterministic ==
    \A i, j \in Slots :
        (pc[i] = "done" /\ pc[j] = "done" /\ req[i] = req[j] /\ reply[i] = reply[j])
            => resp[i] = resp[j]

\* A slot is never held up by another: a free slot can take a request, and a
\* suspended handler can be resumed, whatever the other slots are doing
NonBlocking ==
    \A i \in Slots :
        /\ pc[i] = "idle" => ENABLED Handle(i)
        /\ pc[i] = "awaiting" => ENABLED Return(i)

=============================================================================
